---- MODULE Spec2Model ----
(***************************************************************************)
(* Scrape dispatch / poll / reconcile state machine of the searchai agent. *)
(*                                                                         *)
(*   agent/celery_setup.py            module globals bound at import       *)
(*   agent/scraping/orchestration.py  dispatch_scraping_tasks,             *)
(*                                    update_scraped_results_from_celery   *)
(*   agent/tasks.py                   scrape_url_task (the worker's job)   *)
(*   agent/chatbot_views.py           the two call sites                   *)
(*                                                                         *)
(* The Django session is a Python dict: a function whose DOMAIN is the set *)
(* of keys present.  A Python dict value is a record; a non-dict value is  *)
(* the record NonDict.  An exception is named by its class.                *)
(***************************************************************************)
EXTENDS Integers, Sequences, FiniteSets, TLC

VARIABLES
    USE_CELERY_FOR_SCRAPING, \* settings.USE_CELERY_FOR_SCRAPING
    celery,                  \* the module globals of agent/celery_setup.py
    session,                 \* request.session, persisted across requests and restarts
    queue,                   \* the result backend: group id -> group, for the
                             \* groups a session key still names (restore is only
                             \* ever called with a stored id)
    ret,                     \* what the last call returned to its caller
    running                  \* the call that is between two of its statements,
                             \* with its local list (scraped_items_initial or
                             \* completed_scraped_items); Idle between calls

vars == <<USE_CELERY_FOR_SCRAPING, celery, session, queue, ret, running>>

---------------------------------------------------------------------------
(* Bounds *)

\* longest list of links handed to one dispatch
MaxReqs == 2

\* query contexts of one session, and the ones a specification exercises
Contexts == {"qa", "qb"}
\* positions in the stored search results that can be selected for scraping
Indexes == {0, 1}

---------------------------------------------------------------------------
(* Python values *)

None == <<>>
NonDict == [nondict |-> TRUE]
isinstance_dict(v) == "nondict" \notin DOMAIN v
\* dict.get(key, default)
get(d, key, default) == IF key \in DOMAIN d THEN d[key] ELSE default
\* d[key] = value
setitem(d, key, value) == [k \in (DOMAIN d) \cup {key} |-> IF k = key THEN value ELSE d[k]]
\* del d[key]
delitem(d, key) == [k \in (DOMAIN d) \ {key} |-> d[k]]
\* a dict without the keys in drop
without(d, drop) == [k \in (DOMAIN d) \ drop |-> d[k]]
EmptyDict == [k \in {} |-> None]

\* f"scraped_results_{query_context}" and f"scrape_task_group_id_{query_context}"
\* scraped_results_key with one key for every context
scraped_results_key_of_any(query_context) == <<"scraped_results_", "qa">>
scraped_results_key(query_context) == <<"scraped_results_", query_context>>
scrape_task_group_id_key(query_context) == <<"scrape_task_group_id_", query_context>>

\* original_results[idx].get("link")
LinkOf(idx) == <<"https://example/", idx>>
UnknownLink == <<"Unknown link", -1>>
\* request.session.session_key
SessionKey == "sk"

\* the lists of (link, idx) built by chatbot_interface_view from scrape_selected
LinkLists == UNION {[1..n -> {<<LinkOf(i), i>> : i \in Indexes}] : n \in 0..MaxReqs}

---------------------------------------------------------------------------
(* Exceptions *)

\* classes of the exceptions the collaborators raise: an instance of whatever
\* _CeleryBrokerError is bound to, a celery.exceptions.CeleryError, a
\* TimeoutError, and an exception of none of these classes
ExceptionClasses == {"BrokerError", "CeleryError", "TimeoutError", "RuntimeError"}

\* isinstance(exc, cls) for the classes the except clauses name
isinstance_exc(exc, cls) == cls = "Exception" \/ exc = cls

---------------------------------------------------------------------------
(* agent/celery_setup.py, executed once per process at import *)

ImportOutcomes == {"imported", "ImportError", "Exception"}

celery_setup(use_celery, outcome) ==
    IF use_celery /\ outcome = "imported"
    THEN [CELERY_AVAILABLE |-> TRUE,
          _celery_group |-> TRUE, _celery_GroupResult |-> TRUE,
          _actual_scrape_url_task |-> TRUE, _actual_celery_app |-> TRUE,
          _CeleryBaseError |-> "CeleryError", _CeleryBrokerError |-> "BrokerError"]
    ELSE [CELERY_AVAILABLE |-> FALSE,
          _celery_group |-> FALSE, _celery_GroupResult |-> FALSE,
          _actual_scrape_url_task |-> FALSE, _actual_celery_app |-> FALSE,
          _CeleryBaseError |-> "Exception", _CeleryBrokerError |-> "BrokerError"]

---------------------------------------------------------------------------
(* The content extractor and the token estimator, as their callers see them *)

\* what scrape_url(link) and tiktoken do for one link: text, no text, or an
\* exception out of scrape_url; the tokenizer may fail on a text
ScrapeOutcomes ==
    {[content |-> "hello world", raises |-> "", tiktoken_raises |-> FALSE],
     [content |-> "hello world", raises |-> "", tiktoken_raises |-> TRUE],
     [content |-> "", raises |-> "", tiktoken_raises |-> FALSE],
     [content |-> "", raises |-> "Exception", tiktoken_raises |-> FALSE]}

\* len(tiktoken.encoding_for_model("gpt-4o").encode(content))
encode_len(content) == IF content = "" THEN 0 ELSE 2

\* token_count_of without the inner try of lines 92-97: a count is reported
\* even when the estimator failed
token_count_of_unguarded(out) ==
    IF out.content # "" THEN encode_len(out.content) ELSE 0

\* the token_count both scrape paths compute for a scraped content
token_count_of(out) ==
    IF out.content # "" /\ ~out.tiktoken_raises THEN encode_len(out.content) ELSE 0

\* str(e) of the exception scrape_url raised
str_exc(out) == "boom"

---------------------------------------------------------------------------
(* agent/tasks.py: the job a worker runs for one signature *)

scrape_url_task(url, query_context, result_index, session_id, out) ==
    IF out.raises = ""
    THEN [link |-> url, content |-> out.content, index |-> result_index,
          query_context |-> query_context, session_id |-> session_id,
          status |-> "success", token_count |-> token_count_of(out)]
    ELSE IF out.raises = "MaxRetriesExceededError"
    THEN [link |-> url, content |-> "", index |-> result_index,
          query_context |-> query_context, session_id |-> session_id,
          status |-> "failed", error |-> "Max retries exceeded", token_count |-> 0]
    ELSE [link |-> url, content |-> "", index |-> result_index,
          query_context |-> query_context, session_id |-> session_id,
          status |-> "failed", error |-> str_exc(out), token_count |-> 0]

\* what the result backend hands back for one job: the task's return value,
\* the same mapping with fields missing (the backend guarantees none of
\* them), or a value that is no mapping
Text == [content |-> "hello world", raises |-> "", tiktoken_raises |-> FALSE]
Fails == [content |-> "", raises |-> "Exception", tiktoken_raises |-> FALSE]
Shape(out, drop, dict) == [out |-> out, drop |-> drop, dict |-> dict]

JobShapes ==
    {Shape(out, {}, TRUE) : out \in ScrapeOutcomes}
    \cup {Shape(Fails, {k}, TRUE) : k \in {"link", "index", "error"}}
    \cup {Shape(Fails, {"link", "index", "error"}, TRUE)}
    \cup {Shape(Text, {k}, TRUE) : k \in {"index", "token_count"}}
    \cup {Shape(Text, {}, FALSE)}

job_result(sig, shape) ==
    IF shape.dict
    THEN without(scrape_url_task(sig.url, sig.query_context, sig.result_index,
                                 sig.session_id, shape.out), shape.drop)
    ELSE NonDict

\* task_group_result.get(): one result per job, in the order of the jobs;
\* shapes gives the shape of the result of the jobs of each link
results_data_of(jobs, shapes) ==
    [i \in 1..Len(jobs) |-> job_result(jobs[i], shapes[jobs[i].result_index])]

---------------------------------------------------------------------------
(* orchestration.py: dispatch_scraping_tasks *)

\* lines 46-50: one signature per link while the task is bound
task_signatures(query_context, links_to_scrape) ==
    IF celery._actual_scrape_url_task
    THEN [i \in 1..Len(links_to_scrape) |->
            [url |-> links_to_scrape[i][1], query_context |-> query_context,
             result_index |-> links_to_scrape[i][2], session_id |-> SessionKey]]
    ELSE <<>>

\* pending_items with an empty content instead of the placeholder text
pending_items_empty_content(links_to_scrape) ==
    [i \in 1..Len(links_to_scrape) |->
        [link |-> links_to_scrape[i][1], content |-> "",
         status |-> "pending", index |-> links_to_scrape[i][2]]]

\* pending_items numbering the placeholders by their place in the list
pending_items_by_position(links_to_scrape) ==
    [i \in 1..Len(links_to_scrape) |->
        [link |-> links_to_scrape[i][1], content |-> "Scraping in progress...",
         status |-> "pending", index |-> i - 1]]

\* lines 58-64: the placeholders of a submitted group
pending_items(links_to_scrape) ==
    [i \in 1..Len(links_to_scrape) |->
        [link |-> links_to_scrape[i][1], content |-> "Scraping in progress...",
         status |-> "pending", index |-> links_to_scrape[i][2]]]

\* sync_item with the except branch of lines 106-118 marking the item pending
sync_item_pending_on_error(link, idx, out) ==
    IF out.raises = ""
    THEN [link |-> link, content |-> out.content, status |-> "success",
          index |-> idx, token_count |-> token_count_of(out)]
    ELSE [link |-> link, content |-> "", status |-> "pending",
          error |-> str_exc(out), index |-> idx, token_count |-> 0]

\* lines 87-118: one link scraped inline
sync_item(link, idx, out) ==
    IF out.raises = ""
    THEN [link |-> link, content |-> out.content, status |-> "success",
          index |-> idx, token_count |-> token_count_of(out)]
    ELSE [link |-> link, content |-> "", status |-> "failed",
          error |-> str_exc(out), index |-> idx, token_count |-> 0]

\* sync_items with the try of lines 89-118 around the loop instead of inside
\* it: the first exception ends the loop after its failed item
sync_items_stop_at_failure(links_to_scrape, scrape) ==
    LET failing == {i \in 1..Len(links_to_scrape) :
                        scrape[links_to_scrape[i][2]].raises # ""}
        last == IF failing = {} THEN Len(links_to_scrape)
                ELSE CHOOSE i \in failing : \A j \in failing : i <= j
    IN  [i \in 1..last |->
            sync_item(links_to_scrape[i][1], links_to_scrape[i][2],
                      scrape[links_to_scrape[i][2]])]

\* lines 85-86: every link in input order; scrape gives what scraping each
\* link does
sync_items(links_to_scrape, scrape) ==
    [i \in 1..Len(links_to_scrape) |->
        sync_item(links_to_scrape[i][1], links_to_scrape[i][2],
                  scrape[links_to_scrape[i][2]])]

\* dispatch_except with line 70 reading: except _CeleryBaseError
dispatch_except_base_only(exc) ==
    isinstance_exc(exc, celery._CeleryBaseError)

\* line 70: except (_CeleryBrokerError, _CeleryBaseError)
dispatch_except(exc) ==
    \/ isinstance_exc(exc, celery._CeleryBrokerError)
    \/ isinstance_exc(exc, celery._CeleryBaseError)

\* what building and submitting the batch does: "ok", or the class of the
\* exception raised inside the try block
\* ("none" when nothing is built or submitted)
SubmitOutcomes == {"ok", "BrokerError", "CeleryError", "RuntimeError"}

Returned(op, query_context, arg, items, group, pending, env) ==
    [op |-> op, query_context |-> query_context, arg |-> arg, items |-> items,
     group |-> group, pending |-> pending, raised |-> FALSE, env |-> env]
\* an exception reached the caller: there is no return value
Raised(op, query_context, env) ==
    [op |-> op, query_context |-> query_context, arg |-> None, items |-> <<>>,
     group |-> None, pending |-> FALSE, raised |-> TRUE, env |-> env]

\* dispatch_scraping_tasks without lines 75-76: the except clause falls back
\* to the sync path and leaves the handle key alone
dispatch_scraping_tasks_keeps_handle(query_context, links_to_scrape, submit, group_id, scrape) ==
    LET gkey == scrape_task_group_id_key(query_context)
        rkey == scraped_results_key(query_context)
        use_celery == USE_CELERY_FOR_SCRAPING /\ celery.CELERY_AVAILABLE
        sigs == task_signatures(query_context, links_to_scrape)
        fallback == sync_items(links_to_scrape, scrape)
        sync(sess) ==
            [session |-> setitem(sess, rkey, fallback), queue |-> queue,
             ret |-> Returned("dispatch", query_context, links_to_scrape,
                              fallback, None, FALSE, submit)]
    IN  IF links_to_scrape = <<>>
        THEN [session |-> session, queue |-> queue,
              ret |-> Returned("dispatch", query_context, links_to_scrape,
                               <<>>, None, FALSE, submit)]
        ELSE IF ~use_celery
        THEN sync(session)
        ELSE IF submit \notin {"ok", "none"}
        THEN IF dispatch_except(submit)
             THEN sync(session)
             ELSE [session |-> session, queue |-> queue,
                   ret |-> Raised("dispatch", query_context, submit)]
        ELSE IF sigs # <<>> /\ celery._celery_group
        THEN [session |-> setitem(setitem(session, gkey, group_id), rkey,
                                  pending_items(links_to_scrape)),
              queue |-> setitem(queue, group_id, [jobs |-> sigs, ready |-> FALSE]),
              ret |-> Returned("dispatch", query_context, links_to_scrape,
                               pending_items(links_to_scrape), group_id, TRUE, submit)]
        ELSE sync(session)

\* dispatch_scraping_tasks without the early return of lines 37-38
dispatch_scraping_tasks_no_empty_return(query_context, links_to_scrape, submit, group_id, scrape) ==
    LET gkey == scrape_task_group_id_key(query_context)
        rkey == scraped_results_key(query_context)
        use_celery == USE_CELERY_FOR_SCRAPING /\ celery.CELERY_AVAILABLE
        sigs == task_signatures(query_context, links_to_scrape)
        fallback == sync_items(links_to_scrape, scrape)
        sync(sess) ==
            [session |-> setitem(sess, rkey, fallback), queue |-> queue,
             ret |-> Returned("dispatch", query_context, links_to_scrape,
                              fallback, None, FALSE, submit)]
    IN  IF ~use_celery
        THEN sync(session)
        ELSE IF submit \notin {"ok", "none"}
        THEN IF dispatch_except(submit)
             THEN sync(IF gkey \in DOMAIN session THEN delitem(session, gkey)
                                                   ELSE session)
             ELSE [session |-> session, queue |-> queue,
                   ret |-> Raised("dispatch", query_context, submit)]
        ELSE IF sigs # <<>> /\ celery._celery_group
        THEN [session |-> setitem(setitem(session, gkey, group_id), rkey,
                                  pending_items(links_to_scrape)),
              queue |-> setitem(queue, group_id, [jobs |-> sigs, ready |-> FALSE]),
              ret |-> Returned("dispatch", query_context, links_to_scrape,
                               pending_items(links_to_scrape), group_id, TRUE, submit)]
        ELSE sync(session)

\* the whole function: the session and the queue it leaves and what the
\* caller gets.  submit, group_id and scrape are what the collaborators do.
dispatch_scraping_tasks(query_context, links_to_scrape, submit, group_id, scrape) ==
    LET gkey == scrape_task_group_id_key(query_context)
        rkey == scraped_results_key(query_context)
        env == submit
        use_celery == USE_CELERY_FOR_SCRAPING /\ celery.CELERY_AVAILABLE
        sigs == task_signatures(query_context, links_to_scrape)
        fallback == sync_items(links_to_scrape, scrape)
        sync(sess) ==
            [session |-> setitem(sess, rkey, fallback), queue |-> queue,
             ret |-> Returned("dispatch", query_context, links_to_scrape,
                              fallback, None, FALSE, env)]
    IN  IF links_to_scrape = <<>>
        THEN [session |-> session, queue |-> queue,
              ret |-> Returned("dispatch", query_context, links_to_scrape,
                               <<>>, None, FALSE, env)]
        ELSE IF ~use_celery
        THEN sync(session)
        ELSE IF submit \notin {"ok", "none"}
        THEN IF dispatch_except(submit)
             THEN sync(IF gkey \in DOMAIN session THEN delitem(session, gkey)
                                                   ELSE session)
             ELSE [session |-> session, queue |-> queue,
                   ret |-> Raised("dispatch", query_context, env)]
        ELSE IF sigs # <<>> /\ celery._celery_group
        THEN [session |-> setitem(setitem(session, gkey, group_id), rkey,
                                  pending_items(links_to_scrape)),
              queue |-> setitem(queue, group_id, [jobs |-> sigs, ready |-> FALSE]),
              ret |-> Returned("dispatch", query_context, links_to_scrape,
                               pending_items(links_to_scrape), group_id, TRUE, env)]
        ELSE sync(session)

---------------------------------------------------------------------------
(* orchestration.py: update_scraped_results_from_celery *)

\* normalize_item with 0 as the placeholder of a missing index
normalize_item_index_zero(item_result) ==
    IF isinstance_dict(item_result) /\ get(item_result, "status", None) = "success"
    THEN item_result
    ELSE [link |-> IF isinstance_dict(item_result)
                   THEN get(item_result, "link", UnknownLink) ELSE UnknownLink,
          content |-> "", status |-> "failed_task",
          error |-> IF isinstance_dict(item_result)
                    THEN get(item_result, "error", "Unknown error") ELSE "Unknown error",
          index |-> IF isinstance_dict(item_result)
                    THEN get(item_result, "index", 0) ELSE 0]

\* lines 155-163: one job result, kept or turned into a failed_task item
normalize_item(item_result) ==
    IF isinstance_dict(item_result) /\ get(item_result, "status", None) = "success"
    THEN item_result
    ELSE [link |-> IF isinstance_dict(item_result)
                   THEN get(item_result, "link", UnknownLink) ELSE UnknownLink,
          content |-> "", status |-> "failed_task",
          error |-> IF isinstance_dict(item_result)
                    THEN get(item_result, "error", "Unknown error") ELSE "Unknown error",
          index |-> IF isinstance_dict(item_result)
                    THEN get(item_result, "index", -1) ELSE -1]

\* completed_scraped_items keeping only the results that report success
completed_scraped_items_successes_only(results_data) ==
    LET RECURSIVE keep(_)
        keep(i) ==
            IF i > Len(results_data) THEN <<>>
            ELSE IF isinstance_dict(results_data[i])
                    /\ get(results_data[i], "status", None) = "success"
            THEN <<results_data[i]>> \o keep(i + 1)
            ELSE keep(i + 1)
    IN  keep(1)

\* lines 152-163
completed_scraped_items(results_data) ==
    [i \in 1..Len(results_data) |-> normalize_item(results_data[i])]

\* line 137: the guard of the early return
poll_guard(active_task_group_id) ==
    /\ USE_CELERY_FOR_SCRAPING
    /\ celery.CELERY_AVAILABLE
    /\ active_task_group_id # None
    /\ celery._celery_GroupResult
    /\ celery._actual_celery_app

\* poll_except without the last clause, except Exception, of lines 177-179
poll_except_no_catch_all(exc) ==
    \/ isinstance_exc(exc, "TimeoutError")
    \/ isinstance_exc(exc, celery._CeleryBrokerError)
    \/ isinstance_exc(exc, celery._CeleryBaseError)

\* lines 171-179: except TimeoutError / (_CeleryBrokerError, _CeleryBaseError) / Exception
poll_except(exc) ==
    \/ isinstance_exc(exc, "TimeoutError")
    \/ isinstance_exc(exc, celery._CeleryBrokerError)
    \/ isinstance_exc(exc, celery._CeleryBaseError)
    \/ isinstance_exc(exc, "Exception")

\* what the queue does during one poll of a group: restore returns nothing,
\* a call (restore, ready, or get on a ready group) raises, the group is not
\* ready, or the results are fetched
Behaviour(kind, exc, results) == [kind |-> kind, exc |-> exc, results |-> results]
NotConsulted == Behaviour("not_consulted", "", <<>>)

BackendBehaviours(group_id) ==
    {Behaviour("restore_none", "", <<>>)}
    \cup {Behaviour("raises", exc, <<>>) : exc \in ExceptionClasses \ {"TimeoutError"}}
    \cup (IF group_id \notin DOMAIN queue THEN {}
          ELSE IF ~queue[group_id].ready THEN {Behaviour("not_ready", "", <<>>)}
          ELSE {Behaviour("raises", "TimeoutError", <<>>)}
               \cup {Behaviour("results", "",
                                results_data_of(queue[group_id].jobs, shapes)) :
                        shapes \in [{queue[group_id].jobs[i].result_index :
                                        i \in 1..Len(queue[group_id].jobs)}
                                    -> JobShapes]})

\* reconciled with line 164 extending the stored list instead of replacing it
reconciled_extends(sess, query_context, results_data) ==
    LET rkey == scraped_results_key(query_context)
        stored == setitem(sess, rkey,
                          get(sess, rkey, <<>>) \o completed_scraped_items(results_data))
        gkey == scrape_task_group_id_key(query_context)
    IN  IF gkey \in DOMAIN stored THEN delitem(stored, gkey) ELSE stored

\* reconciled without lines 165-166: the handle key stays
reconciled_keeps_handle(sess, query_context, results_data) ==
    setitem(sess, scraped_results_key(query_context),
            completed_scraped_items(results_data))

\* lines 164-166: the results key is replaced and the handle key removed
reconciled(sess, query_context, results_data) ==
    LET stored == setitem(sess, scraped_results_key(query_context),
                          completed_scraped_items(results_data))
        gkey == scrape_task_group_id_key(query_context)
    IN  IF gkey \in DOMAIN stored THEN delitem(stored, gkey) ELSE stored

\* poll_session with the removal of the handle key moved out of the else
\* branch, before the test of ready()
poll_session_always_cleans(sess, query_context, backend) ==
    IF backend.kind = "results"
    THEN reconciled(sess, query_context, backend.results)
    ELSE without(sess, {scrape_task_group_id_key(query_context)})

\* the session a poll of a restored group leaves: written only in the else
\* branch of line 147
poll_session(sess, query_context, backend) ==
    IF backend.kind = "results"
    THEN reconciled(sess, query_context, backend.results)
    ELSE sess

\* update_scraped_results_from_celery with lines 143-145 treating a group that
\* cannot be restored as lost: every placeholder is marked failed_task and
\* the handle is dropped
update_scraped_results_from_celery_gives_up(query_context, active_task_group_id, backend) ==
    IF ~poll_guard(active_task_group_id)
    THEN [session |-> session,
          ret |-> Returned("poll", query_context, active_task_group_id, <<>>,
                           active_task_group_id, FALSE, backend)]
    ELSE IF backend.kind = "raises"
    THEN [session |-> session,
          ret |-> IF poll_except(backend.exc)
                  THEN Returned("poll", query_context, active_task_group_id, <<>>,
                                active_task_group_id, TRUE, backend)
                  ELSE Raised("poll", query_context, backend)]
    ELSE IF backend.kind = "restore_none"
    THEN [session |-> reconciled(session, query_context,
                                 [i \in 1..Len(get(session, scraped_results_key(query_context), <<>>))
                                     |-> NonDict]),
          ret |-> Returned("poll", query_context, active_task_group_id, <<>>,
                           None, FALSE, backend)]
    ELSE [session |-> poll_session(session, query_context, backend),
          ret |-> IF backend.kind = "not_ready"
                  THEN Returned("poll", query_context, active_task_group_id, <<>>,
                                active_task_group_id, TRUE, backend)
                  ELSE Returned("poll", query_context, active_task_group_id, <<>>,
                                None, FALSE, backend)]

\* update_scraped_results_from_celery with the except clauses of lines
\* 171-179 forgetting the group: the handle key is removed and (None, True)
\* is returned
update_scraped_results_from_celery_forgets(query_context, active_task_group_id, backend) ==
    IF ~poll_guard(active_task_group_id)
    THEN [session |-> session,
          ret |-> Returned("poll", query_context, active_task_group_id, <<>>,
                           active_task_group_id, FALSE, backend)]
    ELSE IF backend.kind = "raises"
    THEN [session |-> without(session, {scrape_task_group_id_key(query_context)}),
          ret |-> IF poll_except(backend.exc)
                  THEN Returned("poll", query_context, active_task_group_id, <<>>,
                                None, TRUE, backend)
                  ELSE Raised("poll", query_context, backend)]
    ELSE IF backend.kind = "restore_none"
    THEN [session |-> session,
          ret |-> Returned("poll", query_context, active_task_group_id, <<>>,
                           active_task_group_id, TRUE, backend)]
    ELSE [session |-> poll_session(session, query_context, backend),
          ret |-> IF backend.kind = "not_ready"
                  THEN Returned("poll", query_context, active_task_group_id, <<>>,
                                active_task_group_id, TRUE, backend)
                  ELSE Returned("poll", query_context, active_task_group_id, <<>>,
                                None, FALSE, backend)]

\* the whole function: the session it leaves and what the caller gets
update_scraped_results_from_celery(query_context, active_task_group_id, backend) ==
    IF ~poll_guard(active_task_group_id)
    THEN [session |-> session,
          ret |-> Returned("poll", query_context, active_task_group_id, <<>>,
                           active_task_group_id, FALSE, backend)]
    ELSE IF backend.kind = "raises"
    THEN [session |-> session,
          ret |-> IF poll_except(backend.exc)
                  THEN Returned("poll", query_context, active_task_group_id, <<>>,
                                active_task_group_id, TRUE, backend)
                  ELSE Raised("poll", query_context, backend)]
    ELSE IF backend.kind = "restore_none"
    THEN [session |-> session,
          ret |-> Returned("poll", query_context, active_task_group_id, <<>>,
                           active_task_group_id, TRUE, backend)]
    ELSE [session |-> poll_session(session, query_context, backend),
          ret |-> IF backend.kind = "not_ready"
                  THEN Returned("poll", query_context, active_task_group_id, <<>>,
                                active_task_group_id, TRUE, backend)
                  ELSE Returned("poll", query_context, active_task_group_id, <<>>,
                                None, FALSE, backend)]

---------------------------------------------------------------------------
(* The state machine *)

NoCall(op) == Returned(op, "", None, <<>>, None, FALSE, NotConsulted)
\* no call is between two of its statements
Idle == [op |-> "idle"]

\* the process starts: settings are read and celery_setup is imported
Start(use_celery, outcome) ==
    /\ USE_CELERY_FOR_SCRAPING' = use_celery
    /\ celery' = celery_setup(use_celery, outcome)

Init ==
    /\ \E use_celery \in BOOLEAN, outcome \in ImportOutcomes :
          /\ USE_CELERY_FOR_SCRAPING = use_celery
          /\ celery = celery_setup(use_celery, outcome)
    /\ session = EmptyDict
    /\ queue = EmptyDict
    /\ ret = NoCall("start")
    /\ running = Idle

\* the process is restarted, possibly with other settings; the session store
\* and the queue's backend outlive it
Restart ==
    /\ \E use_celery \in BOOLEAN, outcome \in ImportOutcomes : Start(use_celery, outcome)
    /\ ret' = NoCall("start")
    /\ UNCHANGED <<session, queue, running>>

\* task_group_result_async.id: an id no stored handle holds
GroupId(n) == <<"group", n>>
GroupIds == {GroupId(n) : n \in 1..(Cardinality(Contexts) + 1)}

\* the group ids the session still names
named_groups(sess) ==
    {sess[k] : k \in {scrape_task_group_id_key(c) : c \in Contexts} \cap DOMAIN sess}

fresh_group_id(sess) ==
    CHOOSE g \in GroupIds \ named_groups(sess) :
        \A h \in GroupIds \ named_groups(sess) : g[2] <= h[2]

\* the indexes of the links of a list
indexes_of(links_to_scrape) == {links_to_scrape[i][2] : i \in 1..Len(links_to_scrape)}

\* the return of a dispatch together with what scrape_url and tiktoken did for
\* each index during the call (nothing when no link was scraped inline)
WithScrape(r, scrape) ==
    [f \in DOMAIN r \cup {"scrape"} |-> IF f = "scrape" THEN scrape ELSE r[f]]

DispatchWith(query_context, links_to_scrape, submit, scrape) ==
    LET out == dispatch_scraping_tasks(query_context, links_to_scrape, submit,
                                       fresh_group_id(session), scrape)
    IN  /\ session' = out.session
        /\ queue' = [g \in DOMAIN out.queue \cap named_groups(out.session) |->
                        out.queue[g]]
        /\ ret' = WithScrape(out.ret, scrape)
        /\ UNCHANGED <<USE_CELERY_FOR_SCRAPING, celery, running>>

\* chatbot_interface_view, lines 79-95: dispatch for the selected links
Dispatch(query_context) ==
    \E links_to_scrape \in LinkLists :
        IF links_to_scrape # <<>> /\ USE_CELERY_FOR_SCRAPING /\ celery.CELERY_AVAILABLE
        THEN \E submit \in SubmitOutcomes :
                \E scrape \in IF dispatch_except(submit)
                               THEN [indexes_of(links_to_scrape) -> ScrapeOutcomes]
                               ELSE {EmptyDict} :
                    DispatchWith(query_context, links_to_scrape, submit, scrape)
        ELSE \E scrape \in [indexes_of(links_to_scrape) -> ScrapeOutcomes] :
                DispatchWith(query_context, links_to_scrape, "none", scrape)

\* chatbot_send_message_view, lines 291-294: poll with the stored handle
Poll(query_context) ==
    LET active_task_group_id ==
            get(session, scrape_task_group_id_key(query_context), None)
    IN  \E backend \in IF poll_guard(active_task_group_id)
                       THEN BackendBehaviours(active_task_group_id)
                       ELSE {NotConsulted} :
            LET out == update_scraped_results_from_celery(
                           query_context, active_task_group_id, backend)
            IN  /\ session' = out.session
                /\ queue' = [g \in DOMAIN queue \cap named_groups(out.session) |-> queue[g]]
                /\ ret' = out.ret
                /\ UNCHANGED <<USE_CELERY_FOR_SCRAPING, celery, running>>

\* the workers finish the last job of a group
GroupReady(group_id) ==
    /\ group_id \in DOMAIN queue
    /\ ~queue[group_id].ready
    /\ queue' = [queue EXCEPT ![group_id].ready = TRUE]
    /\ ret' = NoCall("worker")
    /\ UNCHANGED <<USE_CELERY_FOR_SCRAPING, celery, session, running>>

Step(contexts) ==
    \/ \E c \in contexts : Dispatch(c)
    \/ \E c \in contexts : Poll(c)
    \/ \E g \in GroupIds : GroupReady(g)
    \/ Restart

Next == Step({"qa"})

Spec == Init /\ [][Next]_vars

---------------------------------------------------------------------------
(* agent/scraping/views.py: check_scraping_status_view, the status poll of *)
(* the page, which reconciles a ready group by itself                      *)

\* lines 128-144: one job result; a mapping without token_count gets 0 first
status_normalize_item(item_result) ==
    LET counted == IF isinstance_dict(item_result) /\ "token_count" \notin DOMAIN item_result
                   THEN setitem(item_result, "token_count", 0)
                   ELSE item_result
    IN  IF isinstance_dict(counted) /\ get(counted, "status", None) = "success"
        THEN counted
        ELSE [link |-> IF isinstance_dict(counted)
                       THEN get(counted, "link", UnknownLink) ELSE UnknownLink,
              content |-> "", status |-> "failed_task",
              error |-> IF isinstance_dict(counted)
                        THEN get(counted, "error", "Unknown error") ELSE "Unknown error",
              index |-> IF isinstance_dict(counted)
                        THEN get(counted, "index", -1) ELSE -1,
              token_count |-> 0]

\* lines 125-144
final_scraped_items(results_data) ==
    [i \in 1..Len(results_data) |-> status_normalize_item(results_data[i])]

\* the response: the status handed to the indicator template and the HTTP
\* status code, with the results the template gets
Responded(query_context, task_group_id, status, code, items, backend) ==
    [op |-> "status", query_context |-> query_context, arg |-> task_group_id,
     items |-> items, group |-> None, pending |-> status = "pending",
     raised |-> FALSE, env |-> backend, status |-> status, code |-> code]

\* lines 192-217: the status and the code each except clause answers with
status_except(exc) ==
    IF isinstance_exc(exc, "TimeoutError") THEN <<"pending", 200>>
    ELSE IF isinstance_exc(exc, celery._CeleryBrokerError)
            \/ isinstance_exc(exc, celery._CeleryBaseError) THEN <<"error", 500>>
    ELSE <<"error", 500>>

\* the whole view for a request that names a query_context
check_scraping_status_view(query_context, backend) ==
    LET task_group_id == get(session, scrape_task_group_id_key(query_context), None)
        final == final_scraped_items(backend.results)
        stored == setitem(session, scraped_results_key(query_context), final)
    IN  IF ~poll_guard(task_group_id)
        THEN [session |-> session,
              ret |-> Responded(query_context, task_group_id, "not_applicable", 200,
                                <<>>, backend)]
        ELSE IF backend.kind = "restore_none"
        THEN [session |-> session,
              ret |-> Responded(query_context, task_group_id, "unknown", 200,
                                <<>>, backend)]
        ELSE IF backend.kind = "raises"
        THEN [session |-> session,
              ret |-> Responded(query_context, task_group_id,
                                status_except(backend.exc)[1],
                                status_except(backend.exc)[2], <<>>, backend)]
        ELSE IF backend.kind = "not_ready"
        THEN [session |-> session,
              ret |-> Responded(query_context, task_group_id, "pending", 200,
                                <<>>, backend)]
        ELSE [session |-> without(stored, {scrape_task_group_id_key(query_context)}),
              ret |-> Responded(query_context, task_group_id, "completed", 200,
                                final, backend)]

\* the page asks for the scraping status of a context
StatusCheck(query_context) ==
    LET task_group_id == get(session, scrape_task_group_id_key(query_context), None)
    IN  \E backend \in IF poll_guard(task_group_id)
                       THEN BackendBehaviours(task_group_id)
                       ELSE {NotConsulted} :
            LET out == check_scraping_status_view(query_context, backend)
            IN  /\ session' = out.session
                /\ queue' = [g \in DOMAIN queue \cap named_groups(out.session) |-> queue[g]]
                /\ ret' = out.ret
                /\ UNCHANGED <<USE_CELERY_FOR_SCRAPING, celery, running>>

ViewsStep(contexts) ==
    \/ Step(contexts)
    \/ \E c \in contexts : StatusCheck(c)

NextViews == ViewsStep({"qa"})

SpecViews == Init /\ [][NextViews]_vars

---------------------------------------------------------------------------
(* The same two functions statement by statement: the local list is built  *)
(* item by item and the session is written where the code writes it, so    *)
(* that a reader of the store may look between any two statements.         *)

\* the local variables of a call that has entered one of its loops
Frame(op, query_context, path, links_to_scrape, results_data, group_id, env) ==
    [op |-> op, query_context |-> query_context, path |-> path,
     links_to_scrape |-> links_to_scrape, results_data |-> results_data,
     group_id |-> group_id, env |-> env, local |-> <<>>, stored |-> FALSE]

\* how many items the loop of a running call appends
loop_length(r) ==
    IF r.op = "dispatch" THEN Len(r.links_to_scrape) ELSE Len(r.results_data)

\* session_after_append with the loops appending to the stored list itself
session_after_append_in_place(sess, r, local) ==
    setitem(sess, scraped_results_key(r.query_context), local)

\* lines 59, 102, 111 and 160: append() extends the local list; the session
\* is not touched
session_after_append(sess, r, local) == sess

\* lines 33-56 and 70-85: dispatch up to the loop that builds its list.  The
\* async branch has submitted the group and stored the handle (line 56), the
\* except clause has removed it (line 76), before the first item is built.
BeginDispatch(query_context) ==
    /\ running = Idle
    /\ \E links_to_scrape \in LinkLists :
        \E submit \in IF links_to_scrape # <<>> /\ USE_CELERY_FOR_SCRAPING
                            /\ celery.CELERY_AVAILABLE
                      THEN SubmitOutcomes ELSE {"none"} :
            LET gkey == scrape_task_group_id_key(query_context)
                group_id == fresh_group_id(session)
                use_celery == USE_CELERY_FOR_SCRAPING /\ celery.CELERY_AVAILABLE
                sigs == task_signatures(query_context, links_to_scrape)
                whole == dispatch_scraping_tasks(query_context, links_to_scrape,
                                                 submit, group_id, EmptyDict)
            IN  IF links_to_scrape = <<>>
                   \/ (use_celery /\ submit # "ok" /\ ~dispatch_except(submit))
                THEN \* lines 37-38, or the exception leaves the try block
                     /\ session' = whole.session
                     /\ ret' = whole.ret
                     /\ UNCHANGED <<queue, running>>
                ELSE IF use_celery /\ submit = "ok" /\ sigs # <<>> /\ celery._celery_group
                THEN /\ session' = setitem(session, gkey, group_id)
                     /\ queue' = [g \in (DOMAIN queue \cup {group_id})
                                         \cap named_groups(session') |->
                                     IF g = group_id
                                     THEN [jobs |-> sigs, ready |-> FALSE]
                                     ELSE queue[g]]
                     /\ running' = Frame("dispatch", query_context, "async",
                                         links_to_scrape, <<>>, group_id, submit)
                     /\ ret' = NoCall("running")
                ELSE /\ session' = IF use_celery /\ gkey \in DOMAIN session
                                   THEN delitem(session, gkey) ELSE session
                     /\ queue' = [g \in DOMAIN queue \cap named_groups(session') |->
                                     queue[g]]
                     /\ running' = Frame("dispatch", query_context, "sync",
                                         links_to_scrape, <<>>, None, submit)
                     /\ ret' = NoCall("running")
    /\ UNCHANGED <<USE_CELERY_FOR_SCRAPING, celery>>

\* lines 136-153: poll up to the loop that normalizes the fetched results;
\* a poll that fetches nothing runs no loop and writes nothing
BeginPoll(query_context) ==
    /\ running = Idle
    /\ LET active_task_group_id ==
               get(session, scrape_task_group_id_key(query_context), None)
       IN  \E backend \in IF poll_guard(active_task_group_id)
                          THEN BackendBehaviours(active_task_group_id)
                          ELSE {NotConsulted} :
               IF poll_guard(active_task_group_id) /\ backend.kind = "results"
               THEN /\ running' = Frame("poll", query_context, "ready", <<>>,
                                        backend.results, active_task_group_id, backend)
                    /\ ret' = NoCall("running")
                    /\ UNCHANGED <<session, queue>>
               ELSE /\ ret' = update_scraped_results_from_celery(
                                  query_context, active_task_group_id, backend).ret
                    /\ UNCHANGED <<session, queue, running>>
    /\ UNCHANGED <<USE_CELERY_FOR_SCRAPING, celery>>

\* one turn of the loop of lines 58-64, 86-118 or 154-163
AppendItem ==
    /\ running # Idle
    /\ Len(running.local) < loop_length(running)
    /\ LET i == Len(running.local) + 1
       IN  \E out \in IF running.path = "sync" THEN ScrapeOutcomes ELSE {Text} :
              LET item == IF running.path = "async"
                          THEN pending_items(running.links_to_scrape)[i]
                          ELSE IF running.path = "sync"
                          THEN sync_item(running.links_to_scrape[i][1],
                                         running.links_to_scrape[i][2], out)
                          ELSE normalize_item(running.results_data[i])
              IN  /\ running' = [running EXCEPT !.local = Append(@, item)]
                  /\ session' = session_after_append(session, running,
                                                     Append(running.local, item))
    /\ UNCHANGED <<USE_CELERY_FOR_SCRAPING, celery, queue, ret>>

\* line 121 (and the return of line 122), or line 164
StoreResults ==
    /\ running # Idle
    /\ Len(running.local) = loop_length(running)
    /\ ~running.stored
    /\ session' = setitem(session, scraped_results_key(running.query_context),
                          running.local)
    /\ IF running.op = "dispatch"
       THEN /\ running' = Idle
            /\ ret' = Returned("dispatch", running.query_context,
                               running.links_to_scrape, running.local,
                               running.group_id, running.path = "async", running.env)
       ELSE /\ running' = [running EXCEPT !.stored = TRUE]
            /\ UNCHANGED ret
    /\ UNCHANGED <<USE_CELERY_FOR_SCRAPING, celery, queue>>

\* lines 165-169 and the return of line 181
DeleteHandle ==
    /\ running # Idle
    /\ running.op = "poll" /\ running.stored
    /\ session' = without(session, {scrape_task_group_id_key(running.query_context)})
    /\ queue' = [g \in DOMAIN queue \cap named_groups(session') |-> queue[g]]
    /\ running' = Idle
    /\ ret' = Returned("poll", running.query_context, running.group_id, <<>>,
                       None, FALSE, running.env)
    /\ UNCHANGED <<USE_CELERY_FOR_SCRAPING, celery>>

StatementStep(contexts) ==
    \/ \E c \in contexts : BeginDispatch(c)
    \/ \E c \in contexts : BeginPoll(c)
    \/ AppendItem
    \/ StoreResults
    \/ DeleteHandle
    \/ \E g \in GroupIds : GroupReady(g)

NextStatement == StatementStep({"qa"})

SpecStatements == Init /\ [][NextStatement]_vars

---------------------------------------------------------------------------
(* The scraped-token totals and the send-message request                   *)

\* views.py lines 28-29: sum(item.get("token_count", 0) for item in
\* scraped_results if item.get("status") == "success")
total_scraped_tokens(scraped_results) ==
    LET RECURSIVE sum(_)
        sum(i) ==
            IF i > Len(scraped_results) THEN 0
            ELSE (IF get(scraped_results[i], "status", None) = "success"
                  THEN get(scraped_results[i], "token_count", 0) ELSE 0) + sum(i + 1)
    IN  sum(1)

\* chatbot_views.py lines 148-152, chatbot_interface_view, over the items
\* dispatch returned (no item of the model holds None as its token_count: the
\* get(...) is not None of line 151 is the presence of the key)
scraped_content_tokens(scraped_items) ==
    LET RECURSIVE sum(_)
        sum(i) ==
            IF i > Len(scraped_items) THEN 0
            ELSE (IF /\ isinstance_dict(scraped_items[i])
                     /\ get(scraped_items[i], "status", None) = "success"
                     /\ "token_count" \in DOMAIN scraped_items[i]
                  THEN get(scraped_items[i], "token_count", 0) ELSE 0) + sum(i + 1)
    IN  sum(1)

\* chatbot_views.py lines 377-381, chatbot_send_message_view
total_successful_scraped_tokens_for_diag(scraped_results_from_session) ==
    LET RECURSIVE sum(_)
        sum(i) ==
            IF i > Len(scraped_results_from_session) THEN 0
            ELSE (IF /\ isinstance_dict(scraped_results_from_session[i])
                     /\ get(scraped_results_from_session[i], "status", None) = "success"
                  THEN get(scraped_results_from_session[i], "token_count", 0)
                  ELSE 0) + sum(i + 1)
    IN  sum(1)

\* item.get("content", "")[:1500]; no content of the model is that long
truncated_content(item) == get(item, "content", "")

\* lines 306-313: one line of the prompt per success item with a content and
\* per pending item
valid_scraped_content_lines_for_prompt(scraped_results_from_session) ==
    LET RECURSIVE lines(_)
        lines(i) ==
            IF i > Len(scraped_results_from_session) THEN <<>>
            ELSE LET item == scraped_results_from_session[i]
                 IN  IF /\ isinstance_dict(item)
                        /\ get(item, "status", None) = "success"
                        /\ get(item, "content", "") # ""
                     THEN <<[line |-> "Content from", link |-> get(item, "link", ""),
                             content |-> truncated_content(item)]>> \o lines(i + 1)
                     ELSE IF isinstance_dict(item) /\ get(item, "status", None) = "pending"
                     THEN <<[line |-> "still in progress", link |-> get(item, "link", ""),
                             content |-> ""]>> \o lines(i + 1)
                     ELSE lines(i + 1)
    IN  lines(1)

\* what the request made of the scraped results: the poll's return, the lines
\* of the prompt and the scraped-token total of the diagnostics
Sent(r, scraped_results_from_session, lines, total) ==
    [f \in DOMAIN r \cup {"read", "lines", "total"} |->
        IF f = "op" THEN "send_message"
        ELSE IF f = "read" THEN scraped_results_from_session
        ELSE IF f = "lines" THEN lines
        ELSE IF f = "total" THEN total
        ELSE r[f]]

\* chatbot_send_message_view reading the stored results before it polls
chatbot_send_message_view_reads_first(query_context, backend) ==
    LET active_task_group_id ==
            get(session, scrape_task_group_id_key(query_context), None)
        out == update_scraped_results_from_celery(query_context, active_task_group_id,
                                                  backend)
        scraped_results_from_session ==
            get(session, scraped_results_key(query_context), <<>>)
    IN  [session |-> out.session,
         ret |-> Sent(out.ret, scraped_results_from_session,
                      valid_scraped_content_lines_for_prompt(scraped_results_from_session),
                      total_successful_scraped_tokens_for_diag(
                          scraped_results_from_session))]

\* chatbot_send_message_view, lines 291-318 and 377-381: the poll, then the
\* read of the results key, the prompt lines and the token total
chatbot_send_message_view(query_context, backend) ==
    LET active_task_group_id ==
            get(session, scrape_task_group_id_key(query_context), None)
        out == update_scraped_results_from_celery(query_context, active_task_group_id,
                                                  backend)
        scraped_results_from_session ==
            get(out.session, scraped_results_key(query_context), <<>>)
    IN  [session |-> out.session,
         ret |-> IF out.ret.raised
                 THEN Sent(out.ret, <<>>, <<>>, 0)
                 ELSE Sent(out.ret, scraped_results_from_session,
                           valid_scraped_content_lines_for_prompt(
                               scraped_results_from_session),
                           total_successful_scraped_tokens_for_diag(
                               scraped_results_from_session))]

SendMessage(query_context) ==
    LET active_task_group_id ==
            get(session, scrape_task_group_id_key(query_context), None)
    IN  \E backend \in IF poll_guard(active_task_group_id)
                       THEN BackendBehaviours(active_task_group_id)
                       ELSE {NotConsulted} :
            LET out == chatbot_send_message_view(query_context, backend)
            IN  /\ session' = out.session
                /\ queue' = [g \in DOMAIN queue \cap named_groups(out.session) |-> queue[g]]
                /\ ret' = out.ret
                /\ UNCHANGED <<USE_CELERY_FOR_SCRAPING, celery, running>>

\* the requests of the chat page: chatbot_interface_view dispatches,
\* chatbot_send_message_view polls and builds its prompt
ChatStep(contexts) ==
    \/ \E c \in contexts : Dispatch(c)
    \/ \E c \in contexts : SendMessage(c)
    \/ \E g \in GroupIds : GroupReady(g)
    \/ Restart

NextChat == ChatStep({"qa"})

SpecChat == Init /\ [][NextChat]_vars

---------------------------------------------------------------------------
(* project/middleware/session_management.py: SessionSizeMiddleware, run    *)
(* around every request, with the other large keys of the session          *)

\* a session value the model knows only by the length of its JSON text
Blob(n) == [bytes |-> n]

search_raw_results_key(query) == <<"search_raw_results_", query>>
search_full_response_key(query) == <<"search_full_response_", query>>
chat_history_key(query_context) == <<"chat_history_", query_context>>

\* line 18, in the unit of the model (the 1 MB of line 15 is 10 units)
MAX_SESSION_SIZE == 10
\* the JSON text of the results of one search, and of one exchange of the chat
SearchBytes == 3
HistoryBytes == 4
\* the longest chat history of the model
MaxHistory == 8
\* the longest list of links a request of the middleware's model scrapes
MwMaxReqs == 1

\* len(json.dumps(value)) of the value stored under a key
value_len(k, value) ==
    IF k[1] = "scraped_results_" THEN 1 + Len(value)
    ELSE IF k[1] = "scrape_task_group_id_" THEN 1
    ELSE value.bytes

\* lines 61-62 and 98-99: len(json.dumps(dict(request.session)))
RECURSIVE json_len_of(_, _)
json_len_of(sess, keys) ==
    IF keys = {} THEN 0
    ELSE LET k == CHOOSE x \in keys : TRUE
         IN  value_len(k, sess[k]) + json_len_of(sess, keys \ {k})
json_len(sess) == json_len_of(sess, DOMAIN sess)

\* line 89: k.startswith(("search_raw_results_", "search_full_response_",
\* "scraped_results_"))
startswith_search_prefix(k) ==
    k[1] \in {"search_raw_results_", "search_full_response_", "scraped_results_"}

\* lines 87-90: the keys to delete, in the order the session holds its keys;
\* the model keeps no order of insertion, so every order is one the loop may
\* meet
SearchKeyOrders(sess) ==
    LET keys == {k \in DOMAIN sess : startswith_search_prefix(k)}
    IN  {order \in [1..Cardinality(keys) -> keys] :
            \A i, j \in 1..Cardinality(keys) : order[i] = order[j] => i = j}

\* lines 94-101: delete the keys in turn, stop below 70% of the limit
RECURSIVE clean_from(_, _, _)
clean_from(sess, search_keys, i) ==
    IF i > Len(search_keys) THEN sess
    ELSE LET remaining == delitem(sess, search_keys[i])
         IN  IF 10 * json_len(remaining) < 7 * MAX_SESSION_SIZE
             THEN remaining
             ELSE clean_from(remaining, search_keys, i + 1)

\* lines 80-101.  iterable: whether "for k in request.session" iterates the
\* keys; the session class is Django's, not this repository's, and when it
\* has no __iter__ line 88 raises KeyError before anything is deleted
_clean_session(sess, search_keys, iterable) ==
    IF iterable THEN [session |-> clean_from(sess, search_keys, 1), raised |-> FALSE]
    ELSE [session |-> sess, raised |-> TRUE]

\* lines 53-78: what the check leaves of the session, whether _clean_session
\* was called and whether it returned (an exception is logged at line 78)
_check_session_size(sess, search_keys, iterable) ==
    IF json_len(sess) > MAX_SESSION_SIZE
    THEN LET cleaning == _clean_session(sess, search_keys, iterable)
         IN  [session |-> cleaning.session, cleaned |-> TRUE,
              returned |-> ~cleaning.raised]
    ELSE [session |-> sess, cleaned |-> FALSE, returned |-> FALSE]

\* lines 38-51: the view has run and left sess; modified is
\* request.session.modified
SessionSizeMiddleware(sess, modified, search_keys, iterable) ==
    IF modified THEN _check_session_size(sess, search_keys, iterable)
    ELSE [session |-> sess, cleaned |-> FALSE, returned |-> FALSE]

\* the return of a view together with what the middleware did after it
Through(r, mw) ==
    [f \in DOMAIN r \cup {"cleaned", "returned"} |->
        IF f = "cleaned" THEN mw.cleaned
        ELSE IF f = "returned" THEN mw.returned
        ELSE r[f]]

\* a request ends: the middleware runs on the session the view left
Respond(sess, modified, r, queue_after) ==
    \E iterable \in BOOLEAN :
        \E search_keys \in IF modified /\ json_len(sess) > MAX_SESSION_SIZE /\ iterable
                           THEN SearchKeyOrders(sess) ELSE {<<>>} :
            LET mw == SessionSizeMiddleware(sess, modified, search_keys, iterable)
            IN  /\ (~modified \/ json_len(sess) <= MAX_SESSION_SIZE) => iterable
                /\ session' = mw.session
                /\ queue' = [g \in DOMAIN queue_after \cap named_groups(mw.session) |->
                                queue_after[g]]
                /\ ret' = Through(r, mw)
                /\ UNCHANGED <<USE_CELERY_FOR_SCRAPING, celery, running>>

\* search_views.py lines 34-60: the search view stores the raw results and,
\* when the second call succeeds, the full response
Search(query) ==
    \E full \in BOOLEAN :
        LET raw == setitem(session, search_raw_results_key(query), Blob(SearchBytes))
            sess == IF full
                    THEN setitem(raw, search_full_response_key(query), Blob(SearchBytes))
                    ELSE raw
        IN  Respond(sess, TRUE, NoCall("search"), queue)

\* chatbot_interface_view: the chat history is reset (line 49), the selected
\* links are dispatched (lines 79-95), the diagnostics are stored (line 165)
MwDispatch(query_context) ==
    \E links_to_scrape \in {l \in LinkLists : Len(l) <= MwMaxReqs} :
        \E submit \in IF links_to_scrape # <<>> /\ USE_CELERY_FOR_SCRAPING
                         /\ celery.CELERY_AVAILABLE
                      THEN SubmitOutcomes ELSE {"none"} :
            \E scrape \in IF submit = "none" \/ dispatch_except(submit)
                          THEN [indexes_of(links_to_scrape) -> ScrapeOutcomes]
                          ELSE {EmptyDict} :
                LET out == dispatch_scraping_tasks(query_context, links_to_scrape, submit,
                                                   fresh_group_id(session), scrape)
                IN  Respond(setitem(out.session, chat_history_key(query_context), Blob(0)),
                            TRUE, WithScrape(out.ret, scrape), out.queue)

\* chatbot_send_message_view: the poll and the prompt (lines 291-318), then
\* the exchange appended to the chat history (lines 350-352)
MwSendMessage(query_context) ==
    LET active_task_group_id ==
            get(session, scrape_task_group_id_key(query_context), None)
        history == get(session, chat_history_key(query_context), Blob(0))
    IN  /\ history.bytes + HistoryBytes <= MaxHistory
        /\ \E backend \in IF poll_guard(active_task_group_id)
                          THEN BackendBehaviours(active_task_group_id)
                          ELSE {NotConsulted} :
              LET out == chatbot_send_message_view(query_context, backend)
              IN  Respond(setitem(out.session, chat_history_key(query_context),
                                  Blob(history.bytes + HistoryBytes)),
                          TRUE, out.ret, queue)

\* check_scraping_status_view: the session is modified by lines 146-148 only
MwStatusCheck(query_context) ==
    LET task_group_id == get(session, scrape_task_group_id_key(query_context), None)
    IN  \E backend \in IF poll_guard(task_group_id)
                       THEN BackendBehaviours(task_group_id)
                       ELSE {NotConsulted} :
            LET out == check_scraping_status_view(query_context, backend)
            IN  Respond(out.session, out.ret.status = "completed", out.ret, queue)

MiddlewareStep(contexts) ==
    \/ \E c \in contexts : Search(c)
    \/ \E c \in contexts : MwDispatch(c)
    \/ \E c \in contexts : MwSendMessage(c)
    \/ \E c \in contexts : MwStatusCheck(c)
    \/ \E g \in GroupIds : GroupReady(g)
    \/ Restart

NextMiddleware == MiddlewareStep({"qa"})

SpecMiddleware == Init /\ [][NextMiddleware]_vars

---------------------------------------------------------------------------
(* Polling until the group is reconciled: one process, whose settings stay *)
(* as they were read at its start, a queue whose workers finish their jobs *)
(* and a page that keeps sending messages                                  *)

\* the longest list of links a request of this specification scrapes
LiveMaxReqs == 1

\* the chat page is opened for a context that tracks no group: the polling
\* that follows is the polling of the one group this dispatch submits
LiveDispatch(query_context) ==
    /\ scrape_task_group_id_key(query_context) \notin DOMAIN session
    /\ \E links_to_scrape \in {l \in LinkLists : Len(l) <= LiveMaxReqs} :
           \E submit \in IF links_to_scrape # <<>> /\ USE_CELERY_FOR_SCRAPING
                            /\ celery.CELERY_AVAILABLE
                         THEN SubmitOutcomes ELSE {"none"} :
               \E scrape \in IF submit = "none" \/ dispatch_except(submit)
                             THEN [indexes_of(links_to_scrape) -> ScrapeOutcomes]
                             ELSE {EmptyDict} :
                   DispatchWith(query_context, links_to_scrape, submit, scrape)

\* a poll whose fetch succeeds: restore, ready() and get() all answer
Fetch(query_context) == Poll(query_context) /\ ret'.env.kind = "results"

LiveStep(contexts) ==
    \/ \E c \in contexts : LiveDispatch(c)
    \/ \E c \in contexts : Poll(c)
    \/ \E g \in GroupIds : GroupReady(g)

NextLive == LiveStep({"qa"})

\* the page polls again and again, the workers finish every group, and of
\* the fetches of a group that stays ready one succeeds
SpecLive ==
    /\ Init /\ [][NextLive]_vars
    /\ WF_vars(Poll("qa"))
    /\ WF_vars(\E g \in GroupIds : GroupReady(g))
    /\ SF_vars(Fetch("qa"))

---------------------------------------------------------------------------
(* Two contexts in one session: the requests of two chat pages interleave  *)

\* the longest list of links a request of this specification scrapes
FrameMaxReqs == 1

FrameDispatch(query_context) ==
    \E links_to_scrape \in {l \in LinkLists : Len(l) <= FrameMaxReqs} :
        \E submit \in IF links_to_scrape # <<>> /\ USE_CELERY_FOR_SCRAPING
                         /\ celery.CELERY_AVAILABLE
                      THEN SubmitOutcomes ELSE {"none"} :
            \E scrape \in IF submit = "none" \/ dispatch_except(submit)
                          THEN [indexes_of(links_to_scrape) -> ScrapeOutcomes]
                          ELSE {EmptyDict} :
                DispatchWith(query_context, links_to_scrape, submit, scrape)

\* one process: the settings stay as Init read them
FrameStep(contexts) ==
    \/ \E c \in contexts : FrameDispatch(c)
    \/ \E c \in contexts : Poll(c)
    \/ \E g \in GroupIds : GroupReady(g)

NextFrame == FrameStep(Contexts)

SpecFrame == Init /\ [][NextFrame]_vars

---------------------------------------------------------------------------
(* agent/scraping/views.py: view_scraped_json_result, the page's view of   *)
(* the scraped content of a context                                        *)

\* the item_index of the URL: -1 for all the items, or a position
ItemIndexes == {-1} \cup (0..MaxReqs)

\* lines 267-278: no content of the model is longer than MAX_PREVIEW_LENGTH
truncate_content_for_preview(item_data) == item_data

\* the response: its HTTP status code and the items its body shows
Served(query_context, item_index, code, items) ==
    [op |-> "view_json", query_context |-> query_context, arg |-> item_index,
     items |-> items, group |-> None, pending |-> FALSE, raised |-> FALSE,
     env |-> NotConsulted, code |-> code]

\* lines 236-317
view_scraped_json_result(query_context, item_index) ==
    LET task_group_id == get(session, scrape_task_group_id_key(query_context), None)
        scraped_results == get(session, scraped_results_key(query_context), <<>>)
    IN  IF task_group_id # None /\ celery.CELERY_AVAILABLE /\ USE_CELERY_FOR_SCRAPING
        THEN Served(query_context, item_index, 202, <<>>)
        ELSE IF scraped_results = <<>>
        THEN Served(query_context, item_index, 404, <<>>)
        ELSE IF item_index = -1
        THEN Served(query_context, item_index, 200,
                    [i \in 1..Len(scraped_results) |->
                        truncate_content_for_preview(scraped_results[i])])
        ELSE IF ~(0 <= item_index /\ item_index < Len(scraped_results))
        THEN Served(query_context, item_index, 404, <<>>)
        ELSE IF get(scraped_results[item_index + 1], "status", None) = "success"
                /\ get(scraped_results[item_index + 1], "content", "") = ""
        THEN Served(query_context, item_index, 200, <<scraped_results[item_index + 1]>>)
        ELSE Served(query_context, item_index, 200,
                    <<truncate_content_for_preview(scraped_results[item_index + 1])>>)

ViewScrapedJson(query_context) ==
    \E item_index \in ItemIndexes :
        /\ ret' = view_scraped_json_result(query_context, item_index)
        /\ UNCHANGED <<USE_CELERY_FOR_SCRAPING, celery, session, queue, running>>

JsonStep(contexts) ==
    \/ Step(contexts)
    \/ \E c \in contexts : ViewScrapedJson(c)

NextJson == JsonStep({"qa"})

SpecJson == Init /\ [][NextJson]_vars

---------------------------------------------------------------------------
(* Vocabulary of the claims *)

async_available == USE_CELERY_FOR_SCRAPING /\ celery.CELERY_AVAILABLE

Terminal(item) == item.status \in {"success", "failed"}
AllTerminal(items) == \A i \in 1..Len(items) : Terminal(items[i])
AllPending(items) == \A i \in 1..Len(items) : items[i].status = "pending"

\* how many of the entries of a list carry the position index idx
CountIndex(seq, Ix(_), idx) == Cardinality({i \in 1..Len(seq) : Ix(seq[i]) = idx})
ItemIndex(item) == item.index
LinkIndex(link) == link[2]
SameIndexBag(links, items) ==
    \A idx \in Indexes \cup {-1} :
        CountIndex(links, LinkIndex, idx) = CountIndex(items, ItemIndex, idx)

StoredResults(query_context) == session[scraped_results_key(query_context)]
HasResults(query_context) == scraped_results_key(query_context) \in DOMAIN session
HasHandle(query_context) == scrape_task_group_id_key(query_context) \in DOMAIN session

---------------------------------------------------------------------------
(* C1: for every non-empty request list and every flag, availability,     *)
(* submission outcome and extractor outcome, dispatch returns exactly      *)
(* len(requests) items whose multiset of 'index' values equals that of the *)
(* requests.  (A dispatch only raises for a non-empty list: the empty list *)
(* returns at line 38, before the try block.)                              *)
C1_DispatchReturnsOneItemPerRequest ==
    (ret.op = "dispatch" /\ (ret.raised \/ ret.arg # <<>>)) =>
        /\ ~ret.raised
        /\ Len(ret.items) = Len(ret.arg)
        /\ SameIndexBag(ret.arg, ret.items)

(* C1, on the calls that return: whenever dispatch returns for a non-empty  *)
(* list, it returns one item per request with the same multiset of indexes *)
C1_OnEveryReturn ==
    (ret.op = "dispatch" /\ ~ret.raised /\ ret.arg # <<>>) =>
        /\ Len(ret.items) = Len(ret.arg)
        /\ SameIndexBag(ret.arg, ret.items)

(* C2: after every return of dispatch exactly one holds: (a) every item is *)
(* terminal (success or failed), no handle is returned and pending is      *)
(* false; (b) a handle is returned, pending is true and the items are      *)
(* pending placeholders.                                                   *)
C2_AllTerminal ==
    AllTerminal(ret.items) /\ ret.group = None /\ ~ret.pending
C2_Tracked ==
    ret.group # None /\ ret.pending /\ AllPending(ret.items)
C2_DispatchTerminalXorTracked ==
    (ret.op = "dispatch" /\ ~ret.raised) =>
        (C2_AllTerminal /\ ~C2_Tracked) \/ (C2_Tracked /\ ~C2_AllTerminal)
C2_Witness ==
    /\ ret.op = "dispatch" /\ ~ret.raised
    /\ C2_Tracked /\ Len(ret.items) = MaxReqs
    /\ HasHandle(ret.query_context) /\ session[scrape_task_group_id_key(ret.query_context)] = ret.group

(* C3: async mode enabled and available and the submission raises a        *)
(* broker-class error: dispatch returns len(requests) items, all terminal, *)
(* none pending, no handle, pending = false.                               *)
C3_BrokerErrorFallsBackToSync ==
    (ret.op = "dispatch" /\ ret.env = "BrokerError") =>
        /\ ~ret.raised
        /\ ret.arg # <<>>
        /\ Len(ret.items) = Len(ret.arg)
        /\ AllTerminal(ret.items)
        /\ ret.group = None
        /\ ~ret.pending
C3_Witness ==
    /\ ret.op = "dispatch" /\ ret.env = "BrokerError" /\ async_available
    /\ Len(ret.items) = MaxReqs
    /\ ret.items[1].status = "failed" /\ ret.items[MaxReqs].status = "success"

(* C4: dispatch never propagates an exception to its caller, whatever is   *)
(* raised while building or submitting the batch or by the extractor.      *)
C4_DispatchNeverRaises ==
    ret.op = "dispatch" => ~ret.raised

(* C5: poll never propagates an exception to its caller: a failure of      *)
(* restore, of the readiness query, of the fetch or of the normalization   *)
(* ends in a normal return of a (handle, still_pending) pair.              *)
C5_PollNeverRaises ==
    ret.op = "poll" => ~ret.raised
C5_Witness ==
    /\ ret.op = "poll" /\ ret.env.kind = "raises" /\ ret.env.exc = "RuntimeError"
    /\ ret.group = ret.arg /\ ret.pending

(* C6: a poll with an absent handle, or with any handle while async mode   *)
(* is unavailable, makes no store mutation and returns (absent, false).    *)
C6_PollNoOpReturnsAbsent ==
    [][(ret'.op = "poll" /\ (ret'.arg = None \/ ~async_available)) =>
          (session' = session /\ ~ret'.raised /\ ret'.group = None /\ ~ret'.pending)]_vars

(* C7: for a handle whose group is not yet complete, every one of any     *)
(* number of consecutive polls returns (the same handle, true) and leaves  *)
(* the results key and the group-handle key unchanged.                     *)
PolledNotReady(group_id) ==
    group_id \in DOMAIN queue /\ ~queue[group_id].ready
C7_PollOfUnfinishedGroup ==
    [][(ret'.op = "poll" /\ PolledNotReady(ret'.arg)) =>
          (~ret'.raised /\ ret'.group = ret'.arg /\ ret'.pending /\ session' = session)]_vars

(* C7, amended: the same, while async mode is enabled and available (with  *)
(* async mode off the early return of line 138 answers (handle, false)).   *)
C7_PollOfUnfinishedGroupWhileAsync ==
    [][(ret'.op = "poll" /\ PolledNotReady(ret'.arg) /\ async_available) =>
          (~ret'.raised /\ ret'.group = ret'.arg /\ ret'.pending /\ session' = session)]_vars
\* a poll of an unfinished group has just answered (handle, true)
C7_Witness ==
    /\ ret.op = "poll" /\ ret.env.kind = "not_ready" /\ async_available
    /\ PolledNotReady(ret.arg)
    /\ ret.group = ret.arg /\ ret.pending
    /\ HasHandle(ret.query_context) /\ AllPending(StoredResults(ret.query_context))

(* C8: whenever a poll returns still_pending = false, the results key      *)
(* holds exactly one ScrapeResult per job of the dispatched group and the  *)
(* group-handle key is absent from the store.                              *)
JobCount(r) ==
    IF r.arg \in DOMAIN queue THEN Len(queue[r.arg].jobs) ELSE Len(r.env.results)
C8_PollDoneMeansReconciled ==
    (ret.op = "poll" /\ ~ret.raised /\ ~ret.pending) =>
        /\ ~HasHandle(ret.query_context)
        /\ ret.arg # None =>
              /\ HasResults(ret.query_context)
              /\ Len(StoredResults(ret.query_context)) = JobCount(ret)

(* C9: for a ready group, every job result that is not a mapping, or that  *)
(* is a non-success mapping missing any of link/index/error, is normalized *)
(* without raising into an item with status failed_task, empty content and *)
(* the placeholders 'Unknown link', -1 and 'Unknown error' for the missing *)
(* fields; the poll completes normally.                                    *)
Malformed(r) ==
    \/ ~isinstance_dict(r)
    \/ /\ ~("status" \in DOMAIN r /\ r.status = "success")
       /\ ~({"link", "index", "error"} \subseteq DOMAIN r)
Carried(r, key, placeholder) ==
    IF isinstance_dict(r) /\ key \in DOMAIN r THEN r[key] ELSE placeholder
C9_MalformedResultsGetPlaceholders ==
    (ret.op = "poll" /\ ret.env.kind = "results") =>
        /\ ~ret.raised /\ ret.group = None /\ ~ret.pending
        /\ HasResults(ret.query_context)
        /\ Len(StoredResults(ret.query_context)) = Len(ret.env.results)
        /\ \A i \in 1..Len(ret.env.results) :
              Malformed(ret.env.results[i]) =>
                  StoredResults(ret.query_context)[i] =
                      [link |-> Carried(ret.env.results[i], "link", UnknownLink),
                       content |-> "", status |-> "failed_task",
                       error |-> Carried(ret.env.results[i], "error", "Unknown error"),
                       index |-> Carried(ret.env.results[i], "index", -1)]
C9_Witness ==
    /\ ret.op = "poll" /\ ret.env.kind = "results" /\ ~ret.raised
    /\ Len(ret.env.results) = MaxReqs
    /\ ~isinstance_dict(ret.env.results[1])
    /\ StoredResults(ret.query_context)[1].index = -1
    /\ StoredResults(ret.query_context)[1].link = UnknownLink
    /\ isinstance_dict(ret.env.results[MaxReqs])
    /\ DOMAIN ret.env.results[MaxReqs] \cap {"link", "index", "error"} = {"link", "index"}
    /\ StoredResults(ret.query_context)[MaxReqs].status = "failed_task"
    /\ StoredResults(ret.query_context)[MaxReqs].error = "Unknown error"
    /\ StoredResults(ret.query_context)[MaxReqs].index = ret.env.results[MaxReqs].index

(* C10: every ScrapeResult stored or returned for a request carries the    *)
(* position index of the request it originated from: in the sync path, in  *)
(* the pending placeholders, and in the list written by reconciliation,    *)
(* for every job outcome (success, reported failure, malformed result).    *)
HasIndex(item, idx) == "index" \in DOMAIN item /\ item.index = idx
DispatchKeepsIndexes ==
    (ret'.op = "dispatch" /\ ~ret'.raised /\ ret'.arg # <<>>) =>
        /\ Len(ret'.items) = Len(ret'.arg)
        /\ session'[scraped_results_key(ret'.query_context)] = ret'.items
        /\ \A i \in 1..Len(ret'.arg) : HasIndex(ret'.items[i], ret'.arg[i][2])
\* the step is the poll that fetched the results of the jobs of ret'.arg
Reconciles == ret'.op = "poll" /\ ret'.env.kind = "results" /\ ret'.arg \in DOMAIN queue
C10_EveryItemKeepsItsRequestIndex ==
    [][/\ DispatchKeepsIndexes
       /\ Reconciles =>
            LET jobs == queue[ret'.arg].jobs
                stored == session'[scraped_results_key(ret'.query_context)]
            IN  /\ Len(stored) = Len(jobs)
                /\ \A i \in 1..Len(jobs) : HasIndex(stored[i], jobs[i].result_index)]_vars

(* C10, amended: the sync items and the pending placeholders carry the     *)
(* index of their request; the list written by reconciliation carries, for *)
(* each job, the index its result reports, which is the request's index    *)
(* for every value scrape_url_task returns, success or failure; a result   *)
(* that is no mapping, or a non-success mapping without an index, gets the *)
(* placeholder -1, and a success mapping without an index is stored as it  *)
(* is, without one.                                                        *)
ReportsIndex(r) == isinstance_dict(r) /\ "index" \in DOMAIN r
ReportsSuccess(r) == isinstance_dict(r) /\ "status" \in DOMAIN r /\ r.status = "success"
ReturnedByTask(sig, r) ==
    \E out \in ScrapeOutcomes :
        r = scrape_url_task(sig.url, sig.query_context, sig.result_index, sig.session_id, out)
C10_ItemsKeepTheReportedIndex ==
    [][/\ DispatchKeepsIndexes
       /\ Reconciles =>
            LET jobs == queue[ret'.arg].jobs
                results == ret'.env.results
                stored == session'[scraped_results_key(ret'.query_context)]
            IN  /\ Len(stored) = Len(jobs)
                /\ Len(results) = Len(jobs)
                /\ \A i \in 1..Len(jobs) :
                      /\ ReturnedByTask(jobs[i], results[i]) =>
                            HasIndex(stored[i], jobs[i].result_index)
                      /\ ReportsIndex(results[i]) =>
                            HasIndex(stored[i], results[i].index)
                      /\ (~ReportsIndex(results[i]) /\ ~ReportsSuccess(results[i])) =>
                            HasIndex(stored[i], -1)
                      /\ (~ReportsIndex(results[i]) /\ ReportsSuccess(results[i])) =>
                            "index" \notin DOMAIN stored[i]]_vars
\* a reconciled list whose jobs were dispatched for positions 1 and 0, in
\* that order: a reported failure and a success, each with its own index
C10_Witness ==
    /\ ret.op = "poll" /\ ret.env.kind = "results"
    /\ Len(StoredResults(ret.query_context)) = MaxReqs
    /\ StoredResults(ret.query_context)[1].status = "failed_task"
    /\ StoredResults(ret.query_context)[1].link = LinkOf(1)
    /\ HasIndex(StoredResults(ret.query_context)[1], 1)
    /\ StoredResults(ret.query_context)[MaxReqs].status = "success"
    /\ StoredResults(ret.query_context)[MaxReqs].link = LinkOf(0)
    /\ HasIndex(StoredResults(ret.query_context)[MaxReqs], 0)

(* C11: dispatch with an empty request list returns an empty list, no      *)
(* handle and pending false, and writes nothing: the results key and the   *)
(* group-handle key of the context are neither created, changed nor        *)
(* removed, nothing is submitted to the queue and nothing is scraped.      *)
EmptyDispatch == ret'.op = "dispatch" /\ ret'.env = "none" /\ ret'.arg = <<>>
C11_EmptyDispatchHasNoEffect ==
    [][EmptyDispatch =>
          /\ ~ret'.raised
          /\ ret'.items = <<>> /\ ret'.group = None /\ ~ret'.pending
          /\ session' = session
          /\ queue' = queue]_vars
\* an empty dispatch has returned while a group is tracked for the context:
\* the handle and the placeholders are still there
C11_Witness ==
    /\ ret.op = "dispatch" /\ ret.env = "none" /\ ret.arg = <<>> /\ ~ret.raised
    /\ ret.items = <<>>
    /\ HasHandle(ret.query_context)
    /\ HasResults(ret.query_context)
    /\ Len(StoredResults(ret.query_context)) = MaxReqs
    /\ AllPending(StoredResults(ret.query_context))

(* C12: in the synchronous path an extractor exception for one URL yields  *)
(* exactly one item for that URL, with status failed, empty content,       *)
(* token_count 0 and an error string, and every other request of the batch *)
(* is still extracted and gets its own result, as if nothing had failed.   *)
SyncDispatch ==
    ret.op = "dispatch" /\ ~ret.raised /\ ret.arg # <<>> /\ ret.group = None
C12_SyncFailureIsPerItem ==
    SyncDispatch =>
        /\ Len(ret.items) = Len(ret.arg)
        /\ StoredResults(ret.query_context) = ret.items
        /\ \A i \in 1..Len(ret.arg) :
              LET link == ret.arg[i][1]
                  idx == ret.arg[i][2]
                  out == ret.scrape[idx]
              IN  IF out.raises # ""
                  THEN ret.items[i] =
                          [link |-> link, content |-> "", status |-> "failed",
                           error |-> str_exc(out), index |-> idx, token_count |-> 0]
                  ELSE ret.items[i] =
                          [link |-> link, content |-> out.content, status |-> "success",
                           index |-> idx, token_count |-> token_count_of(out)]
\* the first of two URLs failed and the second was still scraped and counted
C12_Witness ==
    /\ SyncDispatch /\ ret.env = "none"
    /\ Len(ret.items) = MaxReqs
    /\ ret.scrape[ret.arg[1][2]].raises # ""
    /\ ret.items[1].status = "failed" /\ ret.items[1].token_count = 0
    /\ ret.items[MaxReqs].status = "success"
    /\ ret.items[MaxReqs].content = "hello world"
    /\ ret.items[MaxReqs].token_count = encode_len("hello world")

(* C13: if dispatch is called again for a context before the prior group   *)
(* has been reconciled, the stored group handle and the results key are    *)
(* overwritten by the new dispatch, and no later poll writes the prior     *)
(* group's results into the results key: a poll only ever reconciles the   *)
(* group of the latest dispatch, whose placeholders the results key holds. *)
PlaceholdersOf(jobs) ==
    [i \in 1..Len(jobs) |->
        [link |-> jobs[i].url, content |-> "Scraping in progress...",
         status |-> "pending", index |-> jobs[i].result_index]]
\* the step is a dispatch that returns for a context that has a stored handle
Redispatch ==
    /\ ret'.op = "dispatch" /\ ~ret'.raised /\ ret'.arg # <<>>
    /\ scrape_task_group_id_key(ret'.query_context) \in DOMAIN session
C13_RedispatchOrphansThePriorGroup ==
    [][/\ Redispatch =>
            /\ get(session', scrape_task_group_id_key(ret'.query_context), None)
                   # session[scrape_task_group_id_key(ret'.query_context)]
            /\ session'[scraped_results_key(ret'.query_context)] = ret'.items
       /\ Reconciles =>
            /\ scraped_results_key(ret'.query_context) \in DOMAIN session
            /\ session[scraped_results_key(ret'.query_context)]
                   = PlaceholdersOf(queue[ret'.arg].jobs)]_vars

(* C14: in dispatch and in poll the results key is written by a single     *)
(* assignment of a fully built list: whoever reads the store between any   *)
(* two statements of a dispatch or a poll sees the complete previous list  *)
(* or the complete new list, never a list with only some of the new items. *)
CompleteItem(r, i) ==
    IF r.path = "async" THEN r.local[i] = pending_items(r.links_to_scrape)[i]
    ELSE IF r.path = "sync"
    THEN \E out \in ScrapeOutcomes :
            r.local[i] = sync_item(r.links_to_scrape[i][1], r.links_to_scrape[i][2], out)
    ELSE r.local[i] = normalize_item(r.results_data[i])
CompleteList(r) ==
    /\ Len(r.local) = loop_length(r)
    /\ \A i \in 1..Len(r.local) : CompleteItem(r, i)
C14_ResultsKeyWrittenWhole ==
    [][\A c \in Contexts :
          get(session', scraped_results_key(c), None) # get(session, scraped_results_key(c), None)
              => /\ running # Idle
                 /\ running.query_context = c
                 /\ CompleteList(running)
                 /\ session'[scraped_results_key(c)] = running.local]_vars
\* a reader between two appends of a poll's loop: one of two items is built
\* and the store still holds the complete list of placeholders
C14_Witness ==
    /\ running # Idle
    /\ running.op = "poll"
    /\ Len(running.local) = 1 /\ loop_length(running) = MaxReqs
    /\ StoredResults(running.query_context) = PlaceholdersOf(queue[running.group_id].jobs)

(* C15: within one dispatch generation of a context (no further dispatch   *)
(* for it), once the stored ScrapeResult of a request has a terminal       *)
(* status (success, failed or failed_task), no later poll or status check  *)
(* changes that item's status, content, index or token_count.              *)
TerminalStored(item) == item.status \in {"success", "failed", "failed_task"}
SameResult(old, new) ==
    \A f \in {"status", "content", "index", "token_count"} :
        get(old, f, None) = get(new, f, None)
C15_TerminalItemsAreNeverChanged ==
    [][ret'.op \in {"poll", "status"} =>
          \A c \in Contexts :
              scraped_results_key(c) \in DOMAIN session =>
                  \A i \in 1..Len(session[scraped_results_key(c)]) :
                      TerminalStored(session[scraped_results_key(c)][i]) =>
                          /\ scraped_results_key(c) \in DOMAIN session'
                          /\ i <= Len(session'[scraped_results_key(c)])
                          /\ SameResult(session[scraped_results_key(c)][i],
                                        session'[scraped_results_key(c)][i])]_vars

(* C16: whenever an async dispatch attempt fails, because submission       *)
(* raised a broker-class error or because zero valid jobs were built, then *)
(* when dispatch returns the store holds no group-handle key for the       *)
(* context (a stale handle of an earlier dispatch is removed) and the      *)
(* results come from the synchronous path.  The second case is the else    *)
(* branch of line 67; celery_setup binds the task and the group whenever   *)
(* it sets CELERY_AVAILABLE (lines 32-38), so for a non-empty list a job   *)
(* is built for every link and that branch is not taken.                   *)
ZeroJobsBuilt == ret.env = "ok" /\ ret.group = None
FailedAsyncAttempt ==
    /\ ret.op = "dispatch" /\ ~ret.raised /\ ret.arg # <<>>
    /\ async_available
    /\ (ret.env = "BrokerError" \/ ZeroJobsBuilt)
C16_FailedAsyncLeavesNoHandle ==
    /\ FailedAsyncAttempt =>
          /\ ~HasHandle(ret.query_context)
          /\ ret.group = None /\ ~ret.pending
          /\ ret.items = sync_items(ret.arg, ret.scrape)
          /\ StoredResults(ret.query_context) = ret.items
    /\ async_available =>
          /\ celery._actual_scrape_url_task /\ celery._celery_group
          /\ \A links_to_scrape \in LinkLists :
                Len(task_signatures("qa", links_to_scrape)) = Len(links_to_scrape)
\* a broker error on a dispatch for two links: no handle is stored and the
\* items are the scraped ones
C16_Witness ==
    /\ FailedAsyncAttempt /\ ret.env = "BrokerError"
    /\ ~HasHandle(ret.query_context)
    /\ Len(ret.items) = MaxReqs
    /\ ret.items[1].status = "success" /\ ret.items[1].content = "hello world"
    /\ StoredResults(ret.query_context) = ret.items

(* C17: when batch submission succeeds, dispatch stores the returned group *)
(* id under the context's group-handle key, and returns and stores one     *)
(* item per request with status pending, the placeholder content, the      *)
(* request's index and token_count 0, with the group id and pending true.  *)
SubmittedDispatch == ret.op = "dispatch" /\ ~ret.raised /\ ret.env = "ok"
Placeholder(item, link, idx) ==
    /\ item.link = link
    /\ item.status = "pending"
    /\ item.content = "Scraping in progress..."
    /\ item.index = idx
TracksSubmittedGroup ==
    /\ ret.group # None /\ ret.pending
    /\ ret.group \in DOMAIN queue
    /\ HasHandle(ret.query_context)
    /\ session[scrape_task_group_id_key(ret.query_context)] = ret.group
    /\ Len(ret.items) = Len(ret.arg)
    /\ StoredResults(ret.query_context) = ret.items
    /\ \A i \in 1..Len(ret.arg) : Placeholder(ret.items[i], ret.arg[i][1], ret.arg[i][2])
C18_UnrestorableGroupStaysPending ==
    [][(ret'.op = "poll" /\ ret'.env.kind = "restore_none") =>
          /\ ~ret'.raised
          /\ ret'.arg # None /\ ret'.group = ret'.arg /\ ret'.pending
          /\ session' = session
          /\ session'[scrape_task_group_id_key(ret'.query_context)] = ret'.arg]_vars
C18_Witness ==
    /\ ret.op = "poll" /\ ret.env.kind = "restore_none"
    /\ ret.group = ret.arg /\ ret.pending
    /\ HasHandle(ret.query_context)
    /\ session[scrape_task_group_id_key(ret.query_context)] = ret.arg
    /\ Len(StoredResults(ret.query_context)) = MaxReqs
    /\ AllPending(StoredResults(ret.query_context))

(* C19: if during a poll of a tracked group the fetch times out, a         *)
(* broker-class error is raised or any other exception occurs, poll        *)
(* returns (the same handle, true) and the store is exactly as before the  *)
(* call: the group-handle key is still present, the results key unchanged. *)
C19_FailedPollKeepsTheGroupTracked ==
    [][(ret'.op = "poll" /\ ret'.env.kind = "raises") =>
          /\ ~ret'.raised
          /\ ret'.arg # None /\ ret'.group = ret'.arg /\ ret'.pending
          /\ session' = session
          /\ session'[scrape_task_group_id_key(ret'.query_context)] = ret'.arg]_vars
\* the fetch of a ready group timed out
C19_Witness ==
    /\ ret.op = "poll" /\ ret.env.kind = "raises" /\ ret.env.exc = "TimeoutError"
    /\ ret.group = ret.arg /\ ret.pending
    /\ ret.arg \in DOMAIN queue /\ queue[ret.arg].ready
    /\ HasHandle(ret.query_context)
    /\ AllPending(StoredResults(ret.query_context))

(* C20: when the polled group is complete and its results are fetched,     *)
(* poll replaces the results key with the normalized list (no pending      *)
(* placeholder of dispatch time remains), removes the group-handle key and *)
(* returns (absent, false).                                                *)
C20_ReadyGroupReplacesThePlaceholders ==
    (ret.op = "poll" /\ ret.env.kind = "results") =>
        /\ ~ret.raised /\ ret.group = None /\ ~ret.pending
        /\ ~HasHandle(ret.query_context)
        /\ HasResults(ret.query_context)
        /\ Len(StoredResults(ret.query_context)) = Len(ret.env.results)
        /\ \A i \in 1..Len(ret.env.results) :
              LET r == ret.env.results[i]
                  stored == StoredResults(ret.query_context)[i]
              IN  /\ stored.status \in {"success", "failed_task"}
                  /\ stored.content # "Scraping in progress..."
                  /\ ReportsSuccess(r) => stored = r
                  /\ ~ReportsSuccess(r) => stored.status = "failed_task"
\* both jobs of a group succeeded and their results are what is stored
C20_Witness ==
    /\ ret.op = "poll" /\ ret.env.kind = "results" /\ ret.group = None /\ ~ret.pending
    /\ ~HasHandle(ret.query_context)
    /\ Len(StoredResults(ret.query_context)) = MaxReqs
    /\ \A i \in 1..MaxReqs :
          /\ StoredResults(ret.query_context)[i].status = "success"
          /\ StoredResults(ret.query_context)[i].content = "hello world"
          /\ get(StoredResults(ret.query_context)[i], "token_count", 0)
                 = encode_len("hello world")

(* C21: when a ready group is reconciled, each job whose task reported a   *)
(* failure becomes exactly one item with status failed_task, empty content *)
(* and that job's link, index and error; each job whose task reported      *)
(* success is stored as reported; the stored list has one item per job, in *)
(* the order of the jobs, whatever the siblings reported, and every stored *)
(* item has status success or failed_task.                                 *)
ReportsFailure(r) == isinstance_dict(r) /\ "status" \in DOMAIN r /\ r.status = "failed"
C21_FailedJobBecomesOneFailedTaskItem ==
    [][Reconciles =>
        LET jobs == queue[ret'.arg].jobs
            results == ret'.env.results
            stored == session'[scraped_results_key(ret'.query_context)]
        IN  /\ ret'.group = None /\ ~ret'.pending
            /\ Len(stored) = Len(jobs)
            /\ \A i \in 1..Len(stored) : stored[i].status \in {"success", "failed_task"}
            /\ \A i \in 1..Len(jobs) :
                  /\ (ReturnedByTask(jobs[i], results[i]) /\ ReportsFailure(results[i])) =>
                        stored[i] = [link |-> jobs[i].url, content |-> "",
                                     status |-> "failed_task",
                                     error |-> results[i].error,
                                     index |-> jobs[i].result_index]
                  /\ (ReturnedByTask(jobs[i], results[i]) /\ ReportsSuccess(results[i])) =>
                        stored[i] = results[i]]_vars
\* a reconciled group of two jobs: the first reported a failure with its
\* error, the second reported success and is stored as reported
C21_Witness ==
    /\ ret.op = "poll" /\ ret.env.kind = "results"
    /\ Len(ret.env.results) = MaxReqs
    /\ ReportsFailure(ret.env.results[1])
    /\ {"link", "index", "error"} \subseteq DOMAIN ret.env.results[1]
    /\ ReportsSuccess(ret.env.results[MaxReqs])
    /\ Len(StoredResults(ret.query_context)) = MaxReqs
    /\ StoredResults(ret.query_context)[1].status = "failed_task"
    /\ StoredResults(ret.query_context)[1].error = ret.env.results[1].error
    /\ StoredResults(ret.query_context)[1].link = ret.env.results[1].link
    /\ StoredResults(ret.query_context)[MaxReqs] = ret.env.results[MaxReqs]
    /\ StoredResults(ret.query_context)[MaxReqs].content = "hello world"

(* C22: in the synchronous path a non-empty extraction yields an item with *)
(* status success and token_count equal to the estimator's count for that  *)
(* content; an empty extraction yields status success, empty content and   *)
(* token_count 0; and when the estimator fails on a non-empty content the  *)
(* item is still success, with that content and token_count 0.             *)
C22_SyncTokenCount ==
    SyncDispatch =>
        /\ Len(ret.items) = Len(ret.arg)
        /\ \A i \in 1..Len(ret.arg) :
              LET out == ret.scrape[ret.arg[i][2]]
                  item == ret.items[i]
                  stored == StoredResults(ret.query_context)[i]
              IN  out.raises = "" =>
                    /\ item.status = "success"
                    /\ item.content = out.content
                    /\ stored = item
                    /\ (out.content # "" /\ ~out.tiktoken_raises) =>
                            item.token_count = encode_len(out.content)
                    /\ out.content = "" => item.token_count = 0
                    /\ (out.content # "" /\ out.tiktoken_raises) =>
                            item.token_count = 0
\* a synchronous dispatch of two links: the estimator failed on the text of
\* the first, the second had no text
C22_Witness ==
    /\ SyncDispatch
    /\ Len(ret.items) = MaxReqs
    /\ ret.scrape[ret.arg[1][2]] =
            [content |-> "hello world", raises |-> "", tiktoken_raises |-> TRUE]
    /\ ret.items[1].status = "success"
    /\ ret.items[1].content = "hello world"
    /\ ret.items[1].token_count = 0
    /\ ret.scrape[ret.arg[MaxReqs][2]].content = ""
    /\ ret.scrape[ret.arg[MaxReqs][2]].raises = ""
    /\ ret.items[MaxReqs].status = "success"
    /\ ret.items[MaxReqs].token_count = 0

(* C23: the scraped-token total used for the input-token accounting of a   *)
(* context always equals the sum of token_count over the stored items of   *)
(* the context whose status is success: pending, failed and failed_task    *)
(* items and items without a token_count contribute 0.  This is stated of  *)
(* the three places that compute the total: the diagnostics helper, the    *)
(* chat page (chatbot_interface_view) and the send-message request.        *)
Contribution(item) ==
    IF item.status = "success" /\ "token_count" \in DOMAIN item THEN item.token_count ELSE 0
RECURSIVE SumOfContributions(_, _)
SumOfContributions(items, n) ==
    IF n = 0 THEN 0 ELSE Contribution(items[n]) + SumOfContributions(items, n - 1)
StoredSuccessTokens(query_context) ==
    IF HasResults(query_context)
    THEN SumOfContributions(StoredResults(query_context), Len(StoredResults(query_context)))
    ELSE 0
C23_TotalIsTheSumOverStoredSuccesses ==
    /\ \A c \in Contexts :
          total_scraped_tokens(get(session, scraped_results_key(c), <<>>))
              = StoredSuccessTokens(c)
    /\ (ret.op = "send_message" /\ ~ret.raised) =>
          ret.total = StoredSuccessTokens(ret.query_context)
    /\ (ret.op = "dispatch" /\ ~ret.raised) =>
          scraped_content_tokens(ret.items) = StoredSuccessTokens(ret.query_context)

(* C23, where the total is computed from the store or from a list that was *)
(* just stored: the diagnostics helper, the send-message request and a     *)
(* chat page that dispatched at least one link.                            *)
C23_TotalOfWhatWasStored ==
    /\ \A c \in Contexts :
          total_scraped_tokens(get(session, scraped_results_key(c), <<>>))
              = StoredSuccessTokens(c)
    /\ (ret.op = "send_message" /\ ~ret.raised) =>
          /\ ret.total = StoredSuccessTokens(ret.query_context)
          /\ (HasResults(ret.query_context) /\ AllPending(StoredResults(ret.query_context)))
                => ret.total = 0
    /\ (ret.op = "dispatch" /\ ~ret.raised /\ ret.arg # <<>>) =>
          scraped_content_tokens(ret.items) = StoredSuccessTokens(ret.query_context)

(* C24: when SessionSizeMiddleware cleans an over-limit session, it        *)
(* deletes keys with the prefixes search_raw_results_,                     *)
(* search_full_response_ and scraped_results_ one at a time until the size *)
(* falls below 70% of the limit, so that on return from _clean_session     *)
(* the serialized session is below 70% of MAX_SESSION_SIZE.                *)
C24_CleanedSessionIsBelowTheThreshold ==
    ("cleaned" \in DOMAIN ret /\ ret.cleaned /\ ret.returned) =>
        10 * json_len(session) < 7 * MAX_SESSION_SIZE

(* C24, of a _clean_session that returned: the session it leaves is below  *)
(* 70% of the limit or holds no key with one of the three prefixes.        *)
C24_CleanedBelowOrNothingLeftToDelete ==
    ("cleaned" \in DOMAIN ret /\ ret.cleaned /\ ret.returned) =>
        \/ 10 * json_len(session) < 7 * MAX_SESSION_SIZE
        \/ \A k \in DOMAIN session : ~startswith_search_prefix(k)

(* C25: after a successful async dispatch, if the queue eventually reports *)
(* the group ready, keeps it restorable and a fetch eventually succeeds,   *)
(* then under repeated polling some poll eventually returns (absent,       *)
(* false), and then the handle key is absent and the results key holds no  *)
(* pending item.                                                           *)
AsyncDispatched == ret.op = "dispatch" /\ ~ret.raised /\ ret.pending /\ ret.group # None
PolledToTheEnd ==
    /\ ret.op = "poll" /\ ~ret.raised
    /\ ret.group = None /\ ~ret.pending
    /\ ~HasHandle("qa")
    /\ HasResults("qa")
    /\ \A i \in 1..Len(StoredResults("qa")) : StoredResults("qa")[i].status # "pending"
C25_PollingEndsInReconciliation == AsyncDispatched ~> PolledToTheEnd
\* the poll that fetched the results of a dispatched group
C25_Witness ==
    /\ PolledToTheEnd
    /\ ret.env.kind = "results"
    /\ Len(StoredResults("qa")) = LiveMaxReqs

(* C26: between operations (after any completed sequence of dispatch,      *)
(* poll, status-check and session-cleanup calls, under any flag and        *)
(* availability setting), for every context the store holds a group-handle *)
(* key if and only if the context's stored results list consists of        *)
(* pending placeholders: no pending item is left without a tracked handle  *)
(* and no handle is left alongside terminal results or a missing results   *)
(* key.                                                                    *)
ConsistsOfPlaceholders(query_context) ==
    /\ HasResults(query_context)
    /\ StoredResults(query_context) # <<>>
    /\ AllPending(StoredResults(query_context))
C26_HandleIffPlaceholders ==
    \A c \in Contexts : HasHandle(c) <=> ConsistsOfPlaceholders(c)

(* C26, the half that holds: a stored list with a pending item is a list   *)
(* of placeholders only, and its context holds a group-handle key.         *)
C26_PendingItemsAreTracked ==
    \A c \in Contexts :
        (HasResults(c) /\ \E i \in 1..Len(StoredResults(c)) :
                              StoredResults(c)[i].status = "pending")
            => (HasHandle(c) /\ AllPending(StoredResults(c)))

(* C27: the two reconciliation paths are equivalent on the store: for      *)
(* every handle and every queue behaviour (unrestorable, not ready, ready  *)
(* with any mix of success, failed and malformed job results, timeout,     *)
(* broker error, other error), check_scraping_status_view and              *)
(* update_scraped_results_from_celery leave the context's results key and  *)
(* group-handle key in the same final state.                               *)
BehavioursOfHandle(query_context) ==
    LET handle == get(session, scrape_task_group_id_key(query_context), None)
    IN  IF poll_guard(handle) THEN BackendBehaviours(handle) ELSE {NotConsulted}
StoreOf(sess, query_context) ==
    [k \in {scraped_results_key(query_context), scrape_task_group_id_key(query_context)}
            \cap DOMAIN sess |-> sess[k]]
C27_ReconciliationPathsAgree ==
    \A c \in {"qa"} : \A backend \in BehavioursOfHandle(c) :
        StoreOf(check_scraping_status_view(c, backend).session, c)
            = StoreOf(update_scraped_results_from_celery(
                          c, get(session, scrape_task_group_id_key(c), None),
                          backend).session, c)

(* C27, up to token_count: the two paths leave the same group-handle key   *)
(* and the same items, except that the status view adds token_count 0 to   *)
(* an item the poll stores without a token_count.                          *)
SameUpToTokenCount(by_view, by_poll) ==
    \/ by_view = by_poll
    \/ /\ "token_count" \in DOMAIN by_view
       /\ by_view.token_count = 0
       /\ by_poll = without(by_view, {"token_count"})
C27_PathsAgreeUpToTokenCount ==
    \A c \in {"qa"} : \A backend \in BehavioursOfHandle(c) :
        LET by_view == check_scraping_status_view(c, backend).session
            by_poll == update_scraped_results_from_celery(
                           c, get(session, scrape_task_group_id_key(c), None),
                           backend).session
            rkey == scraped_results_key(c)
        IN  /\ DOMAIN by_view = DOMAIN by_poll
            /\ get(by_view, scrape_task_group_id_key(c), None)
                  = get(by_poll, scrape_task_group_id_key(c), None)
            /\ rkey \in DOMAIN by_view =>
                  /\ Len(by_view[rkey]) = Len(by_poll[rkey])
                  /\ \A i \in 1..Len(by_view[rkey]) :
                        SameUpToTokenCount(by_view[rkey][i], by_poll[rkey][i])

(* C28: in a send-message request reconciliation runs before the stored    *)
(* results are read: when the context's group is ready and its fetch       *)
(* succeeds during the request, the scraped context of the prompt and the  *)
(* scraped-token total of that request are built from the reconciled       *)
(* results, and no line of the prompt says that an item of the group is    *)
(* still in progress.                                                      *)
FetchedWhileSending == ret.op = "send_message" /\ ~ret.raised /\ ret.env.kind = "results"
C28_PromptIsBuiltFromTheReconciledResults ==
    FetchedWhileSending =>
        LET reconciled_items == completed_scraped_items(ret.env.results)
            with_content == {i \in 1..Len(reconciled_items) :
                                /\ reconciled_items[i].status = "success"
                                /\ get(reconciled_items[i], "content", "") # ""}
        IN  /\ ret.group = None /\ ~ret.pending
            /\ StoredResults(ret.query_context) = reconciled_items
            /\ ret.read = reconciled_items
            /\ ret.total = SumOfContributions(reconciled_items, Len(reconciled_items))
            /\ Len(ret.lines) = Cardinality(with_content)
            /\ \A n \in 1..Len(ret.lines) :
                  /\ ret.lines[n].line = "Content from"
                  /\ \E i \in with_content :
                        /\ ret.lines[n].link = get(reconciled_items[i], "link", "")
                        /\ ret.lines[n].content = reconciled_items[i].content
\* a send-message request that fetched the results of two jobs, a failure
\* and a text: the prompt has the text, the total is the text's count
C28_Witness ==
    /\ FetchedWhileSending
    /\ Len(ret.env.results) = MaxReqs
    /\ ReportsFailure(ret.env.results[1])
    /\ ReportsSuccess(ret.env.results[MaxReqs])
    /\ "token_count" \in DOMAIN ret.env.results[MaxReqs]
    /\ ret.env.results[MaxReqs].token_count = encode_len("hello world")
    /\ Len(ret.lines) = 1
    /\ ret.lines[1].content = "hello world"
    /\ ret.total = encode_len("hello world")

(* C29: dispatch and poll for one context identifier read and write only   *)
(* that context's results key and group-handle key: a dispatch or a poll   *)
(* on context A leaves the results key and the group-handle key of every   *)
(* other context B as they were, present or absent.                        *)
C29_OtherContextsAreUntouched ==
    [][\A a \in Contexts :
          (ret'.op \in {"dispatch", "poll"} /\ ret'.query_context = a) =>
              \A b \in Contexts \ {a} :
                  StoreOf(session', b) = StoreOf(session, b)]_vars
\* a poll of qb has reconciled its group while qa tracks a group of its own
C29_Witness ==
    /\ ret.op = "poll" /\ ret.query_context = "qb" /\ ret.env.kind = "results"
    /\ HasResults("qb") /\ ~HasHandle("qb")
    /\ HasHandle("qa") /\ ConsistsOfPlaceholders("qa")

(* C30: the scraped-content view never serves a pending placeholder as     *)
(* scraped content: whenever the context's results list contains an item   *)
(* with status pending, view_scraped_json_result answers 'scraping in      *)
(* progress' (HTTP 202) and shows no item of that list.                    *)
HoldsPending(query_context) ==
    /\ HasResults(query_context)
    /\ \E i \in 1..Len(StoredResults(query_context)) :
          StoredResults(query_context)[i].status = "pending"
C30_PendingIsNeverServed ==
    (ret.op = "view_json" /\ HoldsPending(ret.query_context)) =>
        (ret.code = 202 /\ ret.items = <<>>)

(* C30, while async mode is enabled and available: a list with a pending   *)
(* item is answered with 202 and none of its items.                        *)
C30_PendingIsNotServedWhileAsync ==
    (ret.op = "view_json" /\ HoldsPending(ret.query_context) /\ async_available) =>
        (ret.code = 202 /\ ret.items = <<>>)

====
